---- MODULE Spec2Model ----
(***************************************************************************)
(* Model of Heap_management.c: a simulated 1024-byte heap whose bookkeeping *)
(* is two singly linked lists of MemSegment records, availableSegs (free)   *)
(* and occupiedSegs (allocated).  A linked list is modelled as the sequence *)
(* of its nodes in `next` order; a node is a record of the three data       *)
(* fields of MemSegment.  Pointers are integers, NULL is 0, and the pointer *)
(* simulatedHeap + k is the integer simulatedHeap + k.                      *)
(***************************************************************************)
EXTENDS Integers, Sequences, FiniteSets, TLC

\* ------------------------------------------------------------------ bounds
\* The client holds at most MaxLive live allocations at a time.
MaxLive == 3

\* malloc hands out at most MaxNodes MemSegment records at a time.
MaxNodes == 5

\* Where two clients run, each makes at most MaxCalls calls.
MaxCalls == 2

\* ------------------------------------------------------- program constants
NULL == 0
\* malloc(1024) and availableSegs->length = 1024 in setupHeap
HeapSize == 1024

\* The address malloc(1024) returns for the backing buffer (never NULL:
\* setupHeap exits when it is).
BaseAddrs == {4096}

\* Sizes a caller passes to requestMemory (int size): two invalid ones, and
\* valid ones that leave holes too small for a later request, fill the heap
\* exactly (512 + 256 + 256, 1024) and fragment it.
Sizes == {-5, 0, 128, 256, 512, 1024}

\* Sizes passed where the calls are followed step by step.
StepSizes == {0, 256, 512}

\* The size each of two clients asks for: two such blocks fill the heap.
ClientSizes == {512}

VARIABLES
    simulatedHeap,   \* void* simulatedHeap
    availableSegs,   \* free list, in `next` order
    occupiedSegs,    \* allocated list, in `next` order
    last,            \* the last call: its operation, argument, return value, outcome
    pre,             \* both lists as they were before the last successful requestMemory
    stale,           \* a handle the client still holds although it released it
    count,           \* main: int count
    allocatedMem,    \* main: void* allocatedMem[20], the entries written so far
    node,            \* the MemSegment records, by address (step level)
    head,            \* the pointers availableSegs and occupiedSegs (step level)
    proc,            \* each client's position in its call and its locals (step level)
    mutex            \* the lock around the calls, if there is one (step level)

\* The locals of main.
mainVars == <<count, allocatedMem>>

\* The state of the calls followed step by step.
stepVars == <<node, head, proc, mutex>>

vars == <<simulatedHeap, availableSegs, occupiedSegs, last, pre, stale, mainVars, stepVars>>

\* ----------------------------------------------------------------- helpers
\* A MemSegment without its next pointer.
MemSegment(s, l, p) == [startAddr |-> s, length |-> l, memPtr |-> p]

\* Unlinking node i: prev->next = ptr->next (or head = ptr->next).
RemoveAt(list, i) == SubSeq(list, 1, i - 1) \o SubSeq(list, i + 1, Len(list))

\* Linking node x in front of node i: x->next = curr, prev->next = x.
InsertAt(list, i, x) == SubSeq(list, 1, i - 1) \o <<x>> \o SubSeq(list, i, Len(list))

\* ------------------------------------------------------------ requestMemory
\* A scan that also passes over a segment of exactly the requested size.
RECURSIVE FirstLargerFrom(_, _, _)
FirstLargerFrom(list, size, i) ==
    IF i > Len(list) THEN 0
    ELSE IF size >= list[i].length THEN FirstLargerFrom(list, size, i + 1)
    ELSE i

\* while (ptr != NULL && size > ptr->length) ptr = ptr->next;
\* the index ptr stops at, 0 when ptr == NULL.
RECURSIVE FirstFitFrom(_, _, _)
FirstFitFrom(list, size, i) ==
    IF i > Len(list) THEN 0
    ELSE IF size > list[i].length THEN FirstFitFrom(list, size, i + 1)
    ELSE i

\* A search that picks the smallest sufficient segment instead.
BestFit(list, size) ==
    LET fits == {k \in 1..Len(list) : list[k].length >= size} IN
    IF fits = {} THEN 0
    ELSE CHOOSE k \in fits : \A j \in fits :
             list[k].length < list[j].length \/ (list[k].length = list[j].length /\ k <= j)

FirstFit(list, size) == FirstFitFrom(list, size, 1)

\* A new segment whose memPtr is the heap base, without the offset.
NewSegmentAtBase(list, i, size, base) ==
    MemSegment(list[i].startAddr, size, base)

\* The new allocated segment carved from free node i.
NewSegment(list, i, size, base) ==
    MemSegment(list[i].startAddr, size, base + list[i].startAddr)

\* A carve that shrinks the free node without advancing its start.
CarveNoAdvance(list, i, size) ==
    LET shrunk == [list EXCEPT ![i].length = @ - size]
    IN  IF shrunk[i].length = 0 THEN RemoveAt(shrunk, i) ELSE shrunk

\* A carve that leaves an emptied node in the free list.
CarveKeepEmpty(list, i, size) ==
    [list EXCEPT ![i].startAddr = @ + size, ![i].length = @ - size]

\* ptr->startAddr += size; ptr->length -= size; unlink ptr when it is empty.
Carve(list, i, size) ==
    LET shrunk == [list EXCEPT ![i].startAddr = @ + size, ![i].length = @ - size]
    IN  IF shrunk[i].length = 0 THEN RemoveAt(shrunk, i) ELSE shrunk

\* The new segment linked at the head of occupiedSegs instead.
PushOccupied(list, seg) == <<seg>> \o list

\* Walk to the tail of occupiedSegs and link the new segment there.
AppendOccupied(list, seg) == Append(list, seg)

\* What a call leaves behind: both lists, the value returned and the outcome
\* (the message printed, or the silent return of NULL).
Outcome(free, occ, ret, err) == [free |-> free, occ |-> occ, ret |-> ret, err |-> err]

\* A requestMemory that refuses negative sizes only.
AllocateZeroAllowed(free, occ, base, size, mallocOk) ==
    LET i == FirstFit(free, size) IN
    IF size < 0 THEN Outcome(free, occ, NULL, "InvalidSize")
    ELSE IF i = 0 THEN Outcome(free, occ, NULL, "OutOfMemory")
    ELSE IF ~mallocOk THEN Outcome(free, occ, NULL, "AllocFailed")
    ELSE LET newSegment == NewSegment(free, i, size, base) IN
         Outcome(Carve(free, i, size), AppendOccupied(occ, newSegment),
                 newSegment.memPtr, "none")

\* requestMemory(size) on the lists free and occ; mallocOk is whether
\* malloc(sizeof(MemSegment)) succeeds.
Allocate(free, occ, base, size, mallocOk) ==
    LET i == FirstFit(free, size) IN
    IF size <= 0 THEN Outcome(free, occ, NULL, "InvalidSize")
    ELSE IF i = 0 THEN Outcome(free, occ, NULL, "OutOfMemory")
    ELSE IF ~mallocOk THEN Outcome(free, occ, NULL, "AllocFailed")
    ELSE LET newSegment == NewSegment(free, i, size, base) IN
         Outcome(Carve(free, i, size), AppendOccupied(occ, newSegment),
                 newSegment.memPtr, "none")

\* ------------------------------------------------------ combineFreeSegments
\* A merge loop that advances ptr after every merge as well.
RECURSIVE CombineAdvancing(_, _)
CombineAdvancing(list, i) ==
    IF i > Len(list) \/ i + 1 > Len(list) THEN list
    ELSE IF list[i].startAddr + list[i].length = list[i + 1].startAddr
         THEN CombineAdvancing(
                  RemoveAt([list EXCEPT ![i].length = @ + list[i + 1].length], i + 1),
                  i + 1)
         ELSE CombineAdvancing(list, i + 1)

\* The loop of combineFreeSegments with ptr at node i.
RECURSIVE CombineFrom(_, _)
CombineFrom(list, i) ==
    IF i > Len(list) \/ i + 1 > Len(list) THEN list
    ELSE IF list[i].startAddr + list[i].length = list[i + 1].startAddr
         THEN CombineFrom(
                  RemoveAt([list EXCEPT ![i].length = @ + list[i + 1].length], i + 1),
                  i)
         ELSE CombineFrom(list, i + 1)

combineFreeSegments(list) == CombineFrom(list, 1)

\* ------------------------------------------------------------ releaseMemory
\* while (ptr1 != NULL && ptr1->memPtr != memPtr) ptr1 = ptr1->next;
\* the index ptr1 stops at, 0 when ptr1 == NULL.
RECURSIVE FindFrom(_, _, _)
FindFrom(list, memPtr, i) ==
    IF i > Len(list) THEN 0
    ELSE IF list[i].memPtr # memPtr THEN FindFrom(list, memPtr, i + 1)
    ELSE i

FindOccupied(list, memPtr) == FindFrom(list, memPtr, 1)

\* An insertion scan that stops at once: the freed node becomes the head.
InsertPosHead(list, start, i) == i

\* while (curr != NULL && curr->startAddr < ptr1->startAddr) curr = curr->next;
\* the index curr stops at, Len + 1 when curr == NULL.
RECURSIVE InsertPosFrom(_, _, _)
InsertPosFrom(list, start, i) ==
    IF i > Len(list) THEN i
    ELSE IF list[i].startAddr < start THEN InsertPosFrom(list, start, i + 1)
    ELSE i

InsertPos(list, start) == InsertPosFrom(list, start, 1)

\* A reinsertion that leaves out the merge.
ReinsertUnmerged(list, seg) ==
    InsertAt(list, InsertPos(list, seg.startAddr), seg)

\* Reinsert the freed node into the free list, then merge.
Reinsert(list, seg) ==
    combineFreeSegments(InsertAt(list, InsertPos(list, seg.startAddr), seg))

\* An unlink that leaves the node in the allocated list.
UnlinkNothing(list, i) == list

\* Remove node i from the allocated list.
UnlinkOccupied(list, i) == RemoveAt(list, i)

\* releaseMemory(memPtr) on the lists free and occ.
Free(free, occ, memPtr) ==
    LET i == FindOccupied(occ, memPtr) IN
    IF memPtr = NULL THEN Outcome(free, occ, NULL, "NullHandle")
    ELSE IF i = 0 THEN Outcome(free, occ, NULL, "UnknownHandle")
    ELSE Outcome(Reinsert(free, occ[i]), UnlinkOccupied(occ, i), NULL, "none")

\* ------------------------------------------------------------------ actions
\* The record of a call.  rel relates a releaseMemory to the call before it:
\* "fresh" when it releases the handle that call, a successful requestMemory,
\* returned; "again" when it releases the handle that call, a successful
\* releaseMemory, released; "other" in every other case.
Call(op, arg, ret, err, rel) ==
    [op |-> op, arg |-> arg, ret |-> ret, err |-> err, rel |-> rel]

NoSnapshot == [free |-> <<>>, occ |-> <<>>]

\* No call is followed step by step: the lists are the sequences alone.
NoSteps ==
    /\ node = <<>>
    /\ head = [availableSegs |-> NULL, occupiedSegs |-> NULL]
    /\ proc = <<>>
    /\ mutex = [present |-> FALSE, holder |-> 0]

\* setupHeap: one free segment covering the heap, nothing allocated.
Init ==
    /\ simulatedHeap \in BaseAddrs
    /\ availableSegs = <<MemSegment(0, HeapSize, NULL)>>
    /\ occupiedSegs = <<>>
    /\ last = Call("setupHeap", 0, NULL, "none", "other")
    /\ pre = NoSnapshot
    /\ stale = NULL
    /\ count = 0
    /\ allocatedMem = [k \in {} |-> NULL]
    /\ NoSteps

\* requestMemory(size)
requestMemory(size, mallocOk) ==
    \E out \in {Allocate(availableSegs, occupiedSegs, simulatedHeap, size, mallocOk)} :
    /\ out.err = "none" => Len(occupiedSegs) < MaxLive
    /\ availableSegs' = out.free
    /\ occupiedSegs' = out.occ
    /\ last' = Call("requestMemory", size, out.ret, out.err, "other")
    /\ pre' = IF out.err = "none"
              THEN [free |-> availableSegs, occ |-> occupiedSegs]
              ELSE NoSnapshot
    /\ UNCHANGED <<simulatedHeap, stale, mainVars, stepVars>>

\* How a releaseMemory(memPtr) relates to the call before it.
Relation(memPtr) ==
    IF last.op = "requestMemory" /\ last.err = "none" /\ memPtr = last.ret
    THEN "fresh"
    ELSE IF last.op = "releaseMemory" /\ last.err = "none" /\ memPtr = last.arg
    THEN "again"
    ELSE "other"

\* releaseMemory(memPtr); keep is whether the client goes on holding the
\* handle after a successful release.
releaseMemory(memPtr, keep) ==
    \E out \in {Free(availableSegs, occupiedSegs, memPtr)}, rel \in {Relation(memPtr)} :
    /\ availableSegs' = out.free
    /\ occupiedSegs' = out.occ
    /\ last' = Call("releaseMemory", memPtr, NULL, out.err, rel)
    /\ pre' = IF rel = "fresh" THEN pre ELSE NoSnapshot
    /\ stale' = IF keep /\ out.err = "none" THEN memPtr ELSE stale
    /\ UNCHANGED <<simulatedHeap, mainVars, stepVars>>

\* Handles a client may pass to releaseMemory: NULL, the handles of the live
\* allocations, a pointer into the middle of the first, the handle of the
\* call before (released a moment ago, or refused), the handle it kept after
\* releasing it, and a pointer that was never returned.
Handles ==
    {NULL, stale, simulatedHeap + HeapSize}
    \cup {occupiedSegs[k].memPtr : k \in 1..Len(occupiedSegs)}
    \cup {occupiedSegs[k].memPtr + 1 : k \in 1..Len(occupiedSegs) \cap {1}}
    \cup (IF last.op = "releaseMemory" THEN {last.arg} ELSE {})

\* What malloc(sizeof(MemSegment)) may do in requestMemory(size): succeed or
\* fail where the call gets as far as malloc, nothing where it returns before.
MallocOutcomes(size) ==
    IF size > 0 /\ FirstFit(availableSegs, size) # 0 THEN BOOLEAN ELSE {TRUE}

Request == \E size \in Sizes : \E mallocOk \in MallocOutcomes(size) : requestMemory(size, mallocOk)

\* The client forgets the handle it releases (as main does: allocatedMem[index] = NULL).
Release == \E memPtr \in Handles : releaseMemory(memPtr, FALSE)

\* The client goes on holding the handle it releases.
ReleaseKeep == \E memPtr \in Handles : releaseMemory(memPtr, TRUE)

Next == Request \/ Release

NextStale == Request \/ Release \/ ReleaseKeep

Spec == Init /\ [][Next]_vars

\* The same program with a client that may pass a released handle again later.
SpecStale == Init /\ [][NextStale]_vars

\* ------------------------------------------------------------ properties
\* Every node of both lists, tagged with its list and its position.
Nodes ==
    {<<"free", k>> : k \in 1..Len(availableSegs)}
    \cup {<<"occupied", k>> : k \in 1..Len(occupiedSegs)}

Seg(n) == IF n[1] = "free" THEN availableSegs[n[2]] ELSE occupiedSegs[n[2]]

End(seg) == seg.startAddr + seg.length

RECURSIVE TotalLength(_)
TotalLength(list) == IF list = <<>> THEN 0 ELSE Head(list).length + TotalLength(Tail(list))

\* The offset of the block the last releaseMemory was called with.
ReleasedStart == last.arg - simulatedHeap

ReleasedOk == last.op = "releaseMemory" /\ last.err = "none"

RequestedOk == last.op = "requestMemory" /\ last.err = "none"

\* C1: in every reachable state the ranges [startAddr, startAddr + length) of
\* all free and allocated segments lie inside [0, 1024), are pairwise
\* non-overlapping, and cover [0, 1024) exactly: their lengths add up to 1024
\* and every range ends at 1024 or where another one starts.
CoverageInvariant ==
    /\ \A n \in Nodes : Seg(n).startAddr >= 0 /\ End(Seg(n)) <= HeapSize
    /\ \A n, m \in Nodes :
           n # m => End(Seg(n)) <= Seg(m).startAddr \/ End(Seg(m)) <= Seg(n).startAddr
    /\ TotalLength(availableSegs) + TotalLength(occupiedSegs) = HeapSize
    /\ \E n \in Nodes : Seg(n).startAddr = 0
    /\ \A n \in Nodes :
           End(Seg(n)) = HeapSize \/ \E m \in Nodes : Seg(m).startAddr = End(Seg(n))

\* C1 witness: a release has just split the free space around live blocks,
\* so free and allocated ranges alternate.
CoverageWitness ==
    /\ ReleasedOk
    /\ Len(availableSegs) >= 2
    /\ Len(occupiedSegs) >= 2

\* C2: in every reachable state no free segment ends where another free
\* segment starts.
NoTouchingFree ==
    \A i, j \in 1..Len(availableSegs) :
        End(availableSegs[i]) # availableSegs[j].startAddr

\* C2 witness: the block just released was merged into the free segment in
\* front of it (it now lies strictly inside a free segment), and the free
\* list holds more than one segment.
NoTouchingWitness ==
    /\ ReleasedOk
    /\ Len(availableSegs) >= 2
    /\ \E i \in 1..Len(availableSegs) :
           /\ availableSegs[i].startAddr < ReleasedStart
           /\ ReleasedStart < End(availableSegs[i])

\* C3: in every reachable state the free list is in strictly ascending
\* order of startAddr, and after a successful releaseMemory the released
\* block is part of the free segment found at its place in that order.
FreeListSorted ==
    /\ \A i, j \in 1..Len(availableSegs) :
           i < j => availableSegs[i].startAddr < availableSegs[j].startAddr
    /\ ReleasedOk =>
           \E i \in 1..Len(availableSegs) :
               /\ availableSegs[i].startAddr <= ReleasedStart
               /\ ReleasedStart < End(availableSegs[i])
               /\ \A j \in 1..Len(availableSegs) :
                      (j < i) <=> (availableSegs[j].startAddr < availableSegs[i].startAddr)

\* C3 witness: a released block was linked in the middle of the free list,
\* between two free segments it does not touch.
SortedWitness ==
    /\ ReleasedOk
    /\ \E i \in 2..(Len(availableSegs) - 1) : availableSegs[i].startAddr = ReleasedStart

\* The (start, length) ranges of a list, in list order.
Ranges(list) == [k \in 1..Len(list) |-> <<list[k].startAddr, list[k].length>>]

\* The free segments of a list that can hold size bytes.
Fits(list, size) == {k \in 1..Len(list) : list[k].length >= size}

\* The lists of a heap right after setupHeap, as an outcome.
FreshHeap == Outcome(<<MemSegment(0, HeapSize, NULL)>>, <<>>, NULL, "none")

\* requestMemory and releaseMemory applied to an outcome, on a heap at base.
Then_request(h, base, size) == Allocate(h.free, h.occ, base, size, TRUE)

Then_release(h, memPtr) == Free(h.free, h.occ, memPtr)

\* allocate(100), allocate(200), free(first), allocate(50): the last block is
\* placed at start 0, not at 300.
FirstFitScenario ==
    \A base \in BaseAddrs :
        LET a == Then_request(FreshHeap, base, 100)
            b == Then_request(a, base, 200)
            f == Then_release(b, a.ret)
            c == Then_request(f, base, 50)
        IN  /\ a.ret = base /\ b.ret = base + 100 /\ f.err = "none"
            /\ c.ret = base
            /\ c.occ[Len(c.occ)] = MemSegment(0, 50, base)
            /\ Ranges(c.free) = <<(<<50, 50>>), (<<300, 724>>)>>

\* C4: a successful requestMemory(size) takes the free segment with the
\* lowest startAddr among those of length >= size, appends an allocated
\* segment of exactly size bytes at that segment's old start, returns
\* simulatedHeap + old start, and advances that free segment by size (or
\* unlinks it when nothing is left of it); the 100/200/free/50 scenario
\* places the last block at 0.
FirstFitChoice ==
    /\ FirstFitScenario
    /\ RequestedOk =>
          LET size == last.arg
              fits == Fits(pre.free, size)
          IN  /\ fits # {}
              /\ LET c == CHOOSE k \in fits : \A j \in fits :
                               pre.free[k].startAddr <= pre.free[j].startAddr
                      old == pre.free[c]
                  IN  /\ last.ret = simulatedHeap + old.startAddr
                      /\ occupiedSegs = Append(pre.occ,
                             MemSegment(old.startAddr, size, simulatedHeap + old.startAddr))
                      /\ availableSegs =
                             IF old.length = size
                             THEN [k \in 1..(Len(pre.free) - 1) |->
                                      IF k < c THEN pre.free[k] ELSE pre.free[k + 1]]
                             ELSE [pre.free EXCEPT ![c] =
                                      MemSegment(old.startAddr + size, old.length - size,
                                                 old.memPtr)]

\* C4 witness: the request passed over a free segment that was too small and
\* took the first of two that were large enough.
FirstFitWitness ==
    /\ RequestedOk
    /\ Len(pre.free) >= 3
    /\ pre.free[1].length < last.arg
    /\ Cardinality(Fits(pre.free, last.arg)) >= 2

\* C5 as stated: for size > 0 requestMemory returns NULL if and only if no
\* free segment has length >= size.
FailsOnlyWhenNoFit ==
    [][(last'.op = "requestMemory" /\ last'.arg > 0)
          => ((last'.ret = NULL) <=> (Fits(availableSegs, last'.arg) = {}))]_vars

\* allocate(1024) on a fresh heap succeeds and a following allocate(1) fails.
WholeHeapScenario ==
    \A base \in BaseAddrs :
        LET a == Then_request(FreshHeap, base, HeapSize)
        IN  /\ a.err = "none" /\ a.ret = base /\ a.free = <<>>
            /\ \A ok \in BOOLEAN :
                   Allocate(a.free, a.occ, base, 1, ok).err = "OutOfMemory"

\* C5 amended: for size > 0 requestMemory reports OutOfMemory if and only if
\* no free segment has length >= size, whatever the total free space, and
\* returns NULL if and only if that is so or malloc of the segment record
\* failed; allocate(1024) on a fresh heap succeeds (malloc permitting) and a
\* following allocate(1) fails.
FailsWhenNoFitOrNoRecord ==
    [][/\ WholeHeapScenario
       /\ (last'.op = "requestMemory" /\ last'.arg > 0) =>
             /\ (last'.err = "OutOfMemory") <=> (Fits(availableSegs, last'.arg) = {})
             /\ (last'.ret = NULL) <=>
                    (Fits(availableSegs, last'.arg) = {} \/ last'.err = "AllocFailed")
             /\ last'.err \in {"none", "OutOfMemory", "AllocFailed"}]_vars

\* C5 witness: a request was refused although the free segments together
\* hold at least as many bytes as it asked for.
FragmentedWitness ==
    /\ last.op = "requestMemory"
    /\ last.err = "OutOfMemory"
    /\ TotalLength(availableSegs) >= last.arg

\* C6: a requestMemory with size <= 0 fails with InvalidSize, one with no
\* large enough free segment with OutOfMemory, releaseMemory(NULL) with
\* NullHandle, releaseMemory of a handle no allocated segment has with
\* UnknownHandle, and every failed call leaves both lists exactly as they were.
FailureAtomicity ==
    [][/\ (last'.op = "requestMemory" /\ last'.arg <= 0) => last'.err = "InvalidSize"
       /\ (last'.op = "requestMemory" /\ last'.arg > 0
              /\ Fits(availableSegs, last'.arg) = {}) => last'.err = "OutOfMemory"
       /\ (last'.op = "releaseMemory" /\ last'.arg = NULL) => last'.err = "NullHandle"
       /\ (last'.op = "releaseMemory" /\ last'.arg # NULL
              /\ \A k \in 1..Len(occupiedSegs) : occupiedSegs[k].memPtr # last'.arg)
             => last'.err = "UnknownHandle"
       /\ last'.err # "none" =>
             availableSegs' = availableSegs /\ occupiedSegs' = occupiedSegs]_vars

\* C6 witness: a handle released a moment ago was refused while the heap
\* holds live blocks and several free segments.
FailureWitness ==
    /\ last.op = "releaseMemory"
    /\ last.err = "UnknownHandle"
    /\ last.rel = "again"
    /\ Len(availableSegs) >= 2
    /\ Len(occupiedSegs) >= 1

\* C7: when a successful requestMemory(n) is followed at once by
\* releaseMemory of the handle it returned, the release succeeds, the free
\* list has the same (start, length) ranges in the same order as before the
\* request, and the allocated list is what it was before the request.
RoundTrip ==
    (last.op = "releaseMemory" /\ last.rel = "fresh") =>
        /\ last.err = "none"
        /\ Ranges(availableSegs) = Ranges(pre.free)
        /\ occupiedSegs = pre.occ

\* C7 witness: such a round trip was made on a heap with live blocks and a
\* fragmented free list.
RoundTripWitness ==
    /\ last.op = "releaseMemory"
    /\ last.rel = "fresh"
    /\ Len(pre.free) >= 2
    /\ Len(pre.occ) >= 1
    /\ pre.free[1].startAddr < ReleasedStart

\* C8: a releaseMemory called with the handle that the call right before it,
\* a successful releaseMemory, released fails with UnknownHandle and changes
\* neither list.
DoubleRelease ==
    [][(last'.op = "releaseMemory" /\ last'.rel = "again") =>
          /\ last.op = "releaseMemory" /\ last.err = "none" /\ last.arg = last'.arg
          /\ last'.err = "UnknownHandle"
          /\ availableSegs' = availableSegs
          /\ occupiedSegs' = occupiedSegs]_vars

\* C8 witness: the second of two releases of the same handle was refused
\* while other blocks are live.
DoubleReleaseWitness ==
    /\ last.op = "releaseMemory"
    /\ last.rel = "again"
    /\ last.err = "UnknownHandle"
    /\ Len(occupiedSegs) >= 1

\* C9 as stated: a handle the client released and still holds names no live
\* segment, so a later releaseMemory of it fails with UnknownHandle and
\* releases no later allocation.
StaleHandleRefused ==
    stale # NULL => \A k \in 1..Len(occupiedSegs) : occupiedSegs[k].memPtr # stale

\* Each allocated segment's handle is the heap base plus its start, and no
\* two allocated segments share a handle.
HandlesDistinct(occ) ==
    /\ \A k \in 1..Len(occ) : occ[k].memPtr = simulatedHeap + occ[k].startAddr
    /\ \A j, k \in 1..Len(occ) : j # k => occ[j].memPtr # occ[k].memPtr

\* C10: after every call each allocated segment has memPtr = simulatedHeap +
\* startAddr and no two allocated segments share a handle; the handle a
\* successful requestMemory returns is that of the one segment it appended;
\* a releaseMemory of a live segment's handle succeeds and removes exactly
\* that one segment, leaving the others in place.
HandleUniqueness ==
    [][/\ HandlesDistinct(occupiedSegs')
       /\ (last'.op = "requestMemory" /\ last'.err = "none") =>
             /\ occupiedSegs' = Append(occupiedSegs, occupiedSegs'[Len(occupiedSegs')])
             /\ occupiedSegs'[Len(occupiedSegs')].memPtr = last'.ret
             /\ \A k \in 1..Len(occupiedSegs) : occupiedSegs[k].memPtr # last'.ret
       /\ (last'.op = "releaseMemory"
              /\ \E k \in 1..Len(occupiedSegs) : occupiedSegs[k].memPtr = last'.arg) =>
             /\ last'.err = "none"
             /\ \E k \in 1..Len(occupiedSegs) :
                    /\ occupiedSegs[k].memPtr = last'.arg
                    /\ occupiedSegs' =
                           [j \in 1..(Len(occupiedSegs) - 1) |->
                               IF j < k THEN occupiedSegs[j] ELSE occupiedSegs[j + 1]]
             /\ \A k \in 1..Len(occupiedSegs') : occupiedSegs'[k].memPtr # last'.arg]_vars

\* C10 witness: a block lying between two live blocks was released and the
\* two are still allocated.
HandleWitness ==
    /\ ReleasedOk
    /\ Len(occupiedSegs) >= 2
    /\ occupiedSegs[1].startAddr < ReleasedStart
    /\ ReleasedStart < occupiedSegs[2].startAddr

\* ------------------------------------------------------------ full release
\* requestMemory(100), requestMemory(100), then both blocks released in the
\* order of allocation and in the opposite order.
ReleaseAllScenario(first, second) ==
    LET base  == 4096
        h1    == Then_request(FreshHeap, base, 100)
        h2    == Then_request(h1, base, 100)
        hs    == <<h1.ret, h2.ret>>
    IN  Then_release(Then_release(h2, hs[first]), hs[second])

ResetAddrs == {8192, 12288}

\* A setupHeap that leaves out occupiedSegs = NULL.
setupHeapKeepingOccupied(free, occ) ==
    Outcome(<<MemSegment(0, HeapSize, NULL)>>, occ, NULL, "none")

\* The lists setupHeap builds, whatever the lists were: availableSegs is a
\* new node {0, 1024, NULL}, occupiedSegs is NULL.  The old nodes and the old
\* buffer are not freed and no pointer to them is kept.
setupHeapLists(free, occ) ==
    Outcome(<<MemSegment(0, HeapSize, NULL)>>, <<>>, NULL, "none")

\* setupHeap() called again; base is what malloc(1024) returns.  The earlier
\* buffers are still allocated, so base is none of them: addresses are handed
\* out in ascending order.  (When a malloc fails setupHeap does not return:
\* it calls exit(1).)  pre keeps the lists the call found.
setupHeap(base) ==
    \E out \in {setupHeapLists(availableSegs, occupiedSegs)} :
    /\ base > simulatedHeap
    /\ simulatedHeap' = base
    /\ availableSegs' = out.free
    /\ occupiedSegs' = out.occ
    /\ last' = Call("setupHeap", 0, NULL, "none", "other")
    /\ pre' = [free |-> availableSegs, occ |-> occupiedSegs]
    /\ UNCHANGED <<stale, mainVars, stepVars>>

Reset == \E base \in ResetAddrs : setupHeap(base)

NextReset == Request \/ Release \/ Reset

\* The program with a client that may call setupHeap again at any time.
SpecReset == Init /\ [][NextReset]_vars

\* C12: after setupHeap, the first call or a later one from any reachable
\* state, availableSegs is the single segment {start 0, length 1024} with
\* memPtr NULL and occupiedSegs is empty: the same lists as in the initial
\* state, whatever free and allocated segments there were before.
SetupResetsLedger ==
    last.op = "setupHeap" =>
        /\ availableSegs = <<MemSegment(0, HeapSize, NULL)>>
        /\ occupiedSegs = <<>>
        /\ availableSegs = FreshHeap.free /\ occupiedSegs = FreshHeap.occ

\* C12 witness: setupHeap was called again in a state with two live blocks
\* and a fragmented free list.
SetupResetsWitness ==
    /\ last.op = "setupHeap"
    /\ simulatedHeap \notin BaseAddrs
    /\ Len(pre.occ) >= 2
    /\ Len(pre.free) >= 2

\* ------------------------------------------------------ zero-length segments
\* The heap with the free list hole [0,100), hole [200,300), tail [400,1024)
\* around two live blocks, then a request of size bytes.
ExactFitScenario(size) ==
    LET base == 4096
        h1   == Then_request(FreshHeap, base, 100)
        h2   == Then_request(h1, base, 100)
        h3   == Then_request(h2, base, 100)
        h4   == Then_request(h3, base, 100)
        h5   == Then_release(h4, h1.ret)
        h6   == Then_release(h5, h3.ret)
    IN  [before |-> h6, after |-> Then_request(h6, base, size)]

\* C14: in every reachable state every free and every allocated segment has
\* length >= 1; and when a successful requestMemory(size) chose a free
\* segment of length exactly size, the free list afterwards is the free list
\* before without that segment, the other segments unchanged and in order,
\* whether the segment was the head (a request of 100 in the scenario), an
\* interior node or the last node (624 in the scenario).
NoZeroLength ==
    /\ \A n \in Nodes : Seg(n).length >= 1
    /\ RequestedOk =>
           LET i == FirstFit(pre.free, last.arg) IN
           pre.free[i].length = last.arg => availableSegs = RemoveAt(pre.free, i)
    /\ LET first == ExactFitScenario(100)
           final == ExactFitScenario(624)
       IN  /\ Ranges(first.before.free) = << <<0, 100>>, <<200, 100>>, <<400, 624>> >>
           /\ Ranges(first.after.free) = << <<200, 100>>, <<400, 624>> >>
           /\ Ranges(final.after.free) = << <<0, 100>>, <<200, 100>> >>

\* C14 witness: a request has just consumed completely a free segment that
\* was neither the first nor the last node of the free list.
NoZeroLengthWitness ==
    /\ RequestedOk
    /\ LET i == FirstFit(pre.free, last.arg) IN
       /\ 1 < i /\ i < Len(pre.free)
       /\ pre.free[i].length = last.arg

\* ----------------------------------------------------------- segment counts
Count(b) == IF b THEN 1 ELSE 0

\* C15: a successful releaseMemory removes exactly one segment from
\* occupiedSegs and changes the number of free segments by +1 when no free
\* segment touches the released block, 0 when one does and -1 when one
\* touches it on each side, the merge destroying at most two records; a
\* successful requestMemory adds exactly one segment to occupiedSegs and
\* changes the number of free segments by 0, or by -1 when the chosen segment
\* is used up.
SegmentCounts ==
    [][/\ (last'.op = "releaseMemory" /\ last'.err = "none") =>
             LET seg   == CHOOSE seg \in {occupiedSegs[k] : k \in 1..Len(occupiedSegs)} :
                              seg.memPtr = last'.arg
                 left  == \E k \in 1..Len(availableSegs) :
                              End(availableSegs[k]) = seg.startAddr
                 right == \E k \in 1..Len(availableSegs) :
                              availableSegs[k].startAddr = End(seg)
             IN  /\ Len(occupiedSegs') = Len(occupiedSegs) - 1
                 /\ Len(availableSegs') - Len(availableSegs) = 1 - Count(left) - Count(right)
                 /\ (Len(availableSegs) + 1) - Len(availableSegs') \in 0..2
       /\ (last'.op = "requestMemory" /\ last'.err = "none") =>
             LET exact == \E k \in 1..Len(availableSegs) :
                              /\ availableSegs[k].length = last'.arg
                              /\ \A j \in 1..(k - 1) : availableSegs[j].length < last'.arg
             IN  /\ Len(occupiedSegs') = Len(occupiedSegs) + 1
                 /\ Len(availableSegs') - Len(availableSegs) = 0 - Count(exact)]_vars

\* C15 witness: the block just released had a free segment on each side: it
\* now lies inside a free segment that starts before it and ends beyond the
\* end of any block that can start where it started.
SegmentCountsWitness ==
    /\ ReleasedOk
    /\ ReleasedStart > 0
    /\ \E k \in 1..Len(availableSegs) :
           /\ availableSegs[k].startAddr < ReleasedStart
           /\ \A size \in Sizes : size < HeapSize => ReleasedStart + size < End(availableSegs[k])
    /\ occupiedSegs # <<>>

\* C16: in every reachable state the number of segments in availableSegs is
\* at most the number of segments in occupiedSegs plus one.
FreeCountBound ==
    Len(availableSegs) <= Len(occupiedSegs) + 1

\* C16 witness: the bound is attained with two live blocks: a release left
\* three free segments separated by them.
FreeCountWitness ==
    /\ ReleasedOk
    /\ Len(occupiedSegs) = 2
    /\ Len(availableSegs) = 3

\* ------------------------------------------- combineFreeSegments on its own
\* Free lists handed to combineFreeSegments lie in [0, MaxAddr).
MaxAddr == 8

\* Every list of segments with starts >= lo, inside [0, MaxAddr), in ascending
\* order of start and non-overlapping; a node's memPtr is NULL (the node
\* setupHeap built) or the handle it had as an allocated block.
RECURSIVE FreeListsFrom(_, _)
FreeListsFrom(lo, base) ==
    {<<>>} \cup
    UNION {{<<MemSegment(s, l, p)>> \o rest : rest \in FreeListsFrom(s + l, base)} :
              <<s, l, p>> \in {<<s, l, p>> \in (lo..(MaxAddr - 1)) \X (1..MaxAddr) \X {NULL, base} :
                                  s + l <= MaxAddr}}

InitCombine ==
    /\ simulatedHeap \in BaseAddrs
    /\ availableSegs \in FreeListsFrom(0, simulatedHeap)
    /\ occupiedSegs = <<>>
    /\ last = Call("input", 0, NULL, "none", "other")
    /\ pre = NoSnapshot
    /\ stale = NULL
    /\ count = 0
    /\ allocatedMem = [k \in {} |-> NULL]
    /\ NoSteps

\* combineFreeSegments() applied to the list drawn; pre keeps the input.
Combine ==
    /\ last.op = "input"
    /\ availableSegs' = combineFreeSegments(availableSegs)
    /\ pre' = [free |-> availableSegs, occ |-> occupiedSegs]
    /\ last' = Call("combineFreeSegments", 0, NULL, "none", "other")
    /\ UNCHANGED <<simulatedHeap, occupiedSegs, stale, mainVars, stepVars>>

NextCombine == Combine

SpecCombine == InitCombine /\ [][NextCombine]_vars

\* The addresses of a list's segments.
Addrs(list) == UNION {list[k].startAddr..(End(list[k]) - 1) : k \in 1..Len(list)}

\* Positions k of a list whose segment ends where segment k + 1 starts.
AdjacentPairs(list) ==
    {k \in 1..(Len(list) - 1) : End(list[k]) = list[k + 1].startAddr}

\* C17: for every ascending non-overlapping free list, combineFreeSegments
\* leaves a list in which no segment ends where the next one starts; every
\* segment of the result is a maximal run of input segments each ending where
\* the next starts (a run of three or more becomes one segment, under the
\* first node's record); two input segments with a gap between them stay in
\* different segments; the number of segments drops by the number of adjacent
\* pairs; and the set of free addresses and the total length are unchanged.
CombineCorrect ==
    last.op = "combineFreeSegments" =>
        LET input  == pre.free
            output == availableSegs
        IN  /\ \A j \in 1..(Len(output) - 1) : End(output[j]) < output[j + 1].startAddr
            /\ \A j \in 1..Len(output) :
                   \E a, b \in 1..Len(input) :
                       /\ a <= b
                       /\ output[j].startAddr = input[a].startAddr
                       /\ output[j].memPtr = input[a].memPtr
                       /\ End(output[j]) = End(input[b])
                       /\ \A k \in a..(b - 1) : k \in AdjacentPairs(input)
            /\ \A k \in 1..(Len(input) - 1) :
                   k \notin AdjacentPairs(input) =>
                       \E j \in 1..(Len(output) - 1) :
                           /\ End(output[j]) = End(input[k])
                           /\ output[j + 1].startAddr = input[k + 1].startAddr
            /\ Len(output) = Len(input) - Cardinality(AdjacentPairs(input))
            /\ Addrs(output) = Addrs(input)
            /\ TotalLength(output) = TotalLength(input)

\* C17 witness: the input held a run of three segments each ending where the
\* next starts, and a segment separated from its predecessor by a gap.
CombineWitness ==
    /\ last.op = "combineFreeSegments"
    /\ \E k \in AdjacentPairs(pre.free) : k + 1 \in AdjacentPairs(pre.free)
    /\ \E k \in 1..(Len(pre.free) - 1) : k \notin AdjacentPairs(pre.free)
    /\ Len(availableSegs) >= 2

\* -------------------------------------------------------------------- frame
\* C18: a successful requestMemory changes the free list only in the segment
\* it chose (the first one long enough), which advances by the size asked or
\* disappears, and adds one segment at the tail of occupiedSegs, every other
\* free segment and every allocated segment staying as it was, in order; a
\* successful releaseMemory leaves the other allocated segments as they were,
\* in order, and the free ranges afterwards are the ranges that were free
\* plus the released block's range: each of those lies in a free segment,
\* and the free lengths add up to the old total plus the block's length.
FrameOfSuccess ==
    [][/\ (last'.op = "requestMemory" /\ last'.err = "none") =>
             LET size  == last'.arg
                 i     == CHOOSE k \in 1..Len(availableSegs) :
                              /\ availableSegs[k].length >= size
                              /\ \A j \in 1..(k - 1) : availableSegs[j].length < size
                 exact == availableSegs[i].length = size
             IN  /\ exact => availableSegs' = RemoveAt(availableSegs, i)
                 /\ ~exact =>
                        availableSegs' =
                            [availableSegs EXCEPT
                                ![i] = MemSegment(@.startAddr + size, @.length - size, @.memPtr)]
                 /\ Len(occupiedSegs') = Len(occupiedSegs) + 1
                 /\ SubSeq(occupiedSegs', 1, Len(occupiedSegs)) = occupiedSegs
       /\ (last'.op = "releaseMemory" /\ last'.err = "none") =>
             LET j   == CHOOSE k \in 1..Len(occupiedSegs) : occupiedSegs[k].memPtr = last'.arg
                 seg == occupiedSegs[j]
                 old == {availableSegs[k] : k \in 1..Len(availableSegs)} \cup {seg}
             IN  /\ occupiedSegs' = RemoveAt(occupiedSegs, j)
                 /\ \A r \in old :
                        \E k \in 1..Len(availableSegs') :
                            /\ availableSegs'[k].startAddr <= r.startAddr
                            /\ End(r) <= End(availableSegs'[k])
                 /\ TotalLength(availableSegs') = TotalLength(availableSegs) + seg.length
                 /\ \A k \in 1..Len(availableSegs'), m \in 1..Len(occupiedSegs') :
                        \/ End(availableSegs'[k]) <= occupiedSegs'[m].startAddr
                        \/ End(occupiedSegs'[m]) <= availableSegs'[k].startAddr]_vars

\* C18 witness: a request was served from a free segment behind the first
\* one, with part of it left over, while two blocks were already allocated.
FrameWitness ==
    /\ RequestedOk
    /\ Len(pre.occ) >= 2
    /\ FirstFit(pre.free, last.arg) >= 2
    /\ Len(availableSegs) = Len(pre.free)

\* --------------------------------------------------------------------- main
\* void* allocatedMem[20]
TableSize == 20

\* Sizes typed at the menu: an invalid one, and two that let the heap fill
\* up and fail while any number of allocations succeeds over time.
MenuSizes == {-5, 512, 1024}

\* The program is still defined: nothing was written outside allocatedMem.
\* What a write past the table does is undefined, and the model follows the
\* program no further.
Defined == DOMAIN allocatedMem \subseteq 0..(TableSize - 1)

\* Option 1: allocatedMem[count] = requestMemory(size); count++ when the
\* entry is not NULL.  The entry written is kept even when it lies outside
\* the table.
MenuAllocate(size, mallocOk) ==
    \E out \in {Allocate(availableSegs, occupiedSegs, simulatedHeap, size, mallocOk)} :
    /\ Defined
    /\ availableSegs' = out.free
    /\ occupiedSegs' = out.occ
    /\ allocatedMem' = [k \in DOMAIN allocatedMem \cup {count} |->
                           IF k = count THEN out.ret ELSE allocatedMem[k]]
    /\ count' = IF out.ret # NULL THEN count + 1 ELSE count
    /\ last' = Call("requestMemory", size, out.ret, out.err, "other")
    /\ pre' = IF out.err = "none"
              THEN [free |-> availableSegs, occ |-> occupiedSegs]
              ELSE NoSnapshot
    /\ UNCHANGED <<simulatedHeap, stale, stepVars>>

\* Option 2: releaseMemory(allocatedMem[index]); allocatedMem[index] = NULL
\* when 0 <= index < count, "Invalid index." otherwise.
MenuFree(index) ==
    /\ Defined
    /\ IF index >= 0 /\ index < count
       THEN \E out \in {Free(availableSegs, occupiedSegs, allocatedMem[index])},
               rel \in {Relation(allocatedMem[index])} :
            /\ availableSegs' = out.free
            /\ occupiedSegs' = out.occ
            /\ allocatedMem' = [allocatedMem EXCEPT ![index] = NULL]
            /\ last' = Call("releaseMemory", allocatedMem[index], NULL, out.err, rel)
            /\ pre' = IF rel = "fresh" THEN pre ELSE NoSnapshot
       ELSE /\ last' = Call("main", index, NULL, "InvalidIndex", "other")
            /\ pre' = NoSnapshot
            /\ UNCHANGED <<availableSegs, occupiedSegs, allocatedMem>>
    /\ UNCHANGED <<simulatedHeap, stale, count, stepVars>>

\* Option 3: showMemoryState() prints both lists.
MenuDisplay ==
    /\ Defined
    /\ last' = Call("showMemoryState", 0, NULL, "none", "other")
    /\ pre' = NoSnapshot
    /\ UNCHANGED <<simulatedHeap, availableSegs, occupiedSegs, stale, mainVars, stepVars>>

Option1 ==
    \E size \in MenuSizes : \E mallocOk \in MallocOutcomes(size) : MenuAllocate(size, mallocOk)

Option2 == \E index \in (-1)..count : MenuFree(index)

Option3 == MenuDisplay

NextMain == Option1 \/ Option2 \/ Option3

\* main: setupHeap(), count = 0, then the menu loop.
SpecMain == Init /\ [][NextMain]_vars

\* C20 as stated, its first part: every entry main has written lies inside
\* the 20-entry table, that is count < 20 whenever allocatedMem[count] is
\* written.
TableIndexInRange ==
    \A k \in DOMAIN allocatedMem : k < TableSize

\* The rest of C20, which holds while the program is defined: count grows by
\* one on a successful allocation and changes in no other step, a release
\* leaves NULL in its slot, and releasing a slot that holds NULL reaches
\* releaseMemory as NULL and is refused.
MenuCounting ==
    [][/\ count' = count + Count(last'.op = "requestMemory" /\ last'.err = "none")
       /\ (last'.op = "releaseMemory") =>
              \E index \in 0..(count - 1) :
                  /\ last'.arg = allocatedMem[index]
                  /\ allocatedMem'[index] = NULL
                  /\ allocatedMem[index] = NULL => last'.err = "NullHandle"]_vars

\* ------------------------------------------------------------ step by step
\* The same functions, one loop iteration or one stretch of straight-line
\* code at a time, over MemSegment records linked by next pointers.  A
\* record is node[p] for a pointer p in NodeIds; alloc tells whether malloc
\* handed it out and free has not taken it back.  A pointer to a record that
\* was freed is DANGLING: using it is undefined.  The value of a pointer to a
\* record is never looked at (pointers are only followed, and compared with
\* NULL), so the records are numbered in the order in which they are found
\* from the list heads and the clients' locals.
NodeIds == 1..MaxNodes

DANGLING == -1

Record(s, l, p, n, a) ==
    [startAddr |-> s, length |-> l, memPtr |-> p, next |-> n, alloc |-> a]

\* A record that is not in use.
Freed == Record(0, 0, NULL, NULL, FALSE)

\* A record in use that no pointer leads to any more.
Leaked == Record(0, 0, NULL, NULL, TRUE)

\* The list a traversal from p finds: at most fuel records.
RECURSIVE Walk(_, _, _)
Walk(store, p, fuel) ==
    IF p \notin NodeIds \/ fuel = 0 THEN <<>>
    ELSE <<MemSegment(store[p].startAddr, store[p].length, store[p].memPtr)>>
         \o Walk(store, store[p].next, fuel - 1)

\* A client that may make any number of calls.
Unlimited == -1

\* The locals of a client that is in no call; ret is what its last
\* requestMemory returned, left the number of calls it may still make.
Idle ==
    [pc |-> "idle", arg |-> 0, ptr |-> NULL, prev |-> NULL, newSegment |-> NULL,
     temp |-> NULL, ptr1 |-> NULL, prev1 |-> NULL, curr |-> NULL, ret |-> NULL,
     left |-> Unlimited]

\* The pointers among a client's locals.
Pointers(my) == <<my.ptr, my.prev, my.newSegment, my.temp, my.ptr1, my.prev1, my.curr>>

\* The records found from p by next pointers that are not in seen, in order.
RECURSIVE Chain(_, _, _)
Chain(store, p, seen) ==
    IF p \notin NodeIds \/ p \in seen THEN <<>>
    ELSE <<p>> \o Chain(store, store[p].next, seen \cup {p})

\* The records found from the pointers roots, one after the other.
RECURSIVE Collect(_, _, _)
Collect(store, roots, found) ==
    IF roots = <<>> THEN found
    ELSE CHOOSE all \in
             {Collect(store, Tail(roots), more) :
                  more \in {found \o Chain(store, Head(roots),
                                           {found[k] : k \in 1..Len(found)})}} : TRUE

\* The pointers among the locals of the clients c, c + 1, ...
RECURSIVE Roots(_, _)
Roots(procs, c) ==
    IF c \notin DOMAIN procs THEN <<>>
    ELSE Pointers(procs[c]) \o Roots(procs, c + 1)

\* The state with every pointer to a freed record DANGLING.
Dangle(store, hd, procs) ==
    LET d(p) == IF p \in NodeIds /\ ~store[p].alloc THEN DANGLING ELSE p
    IN  [node |-> [p \in NodeIds |-> [store[p] EXCEPT !.next = d(@)]],
         head |-> [availableSegs |-> d(hd.availableSegs),
                   occupiedSegs |-> d(hd.occupiedSegs)],
         proc |-> [c \in DOMAIN procs |->
                      [procs[c] EXCEPT !.ptr = d(@), !.prev = d(@), !.newSegment = d(@),
                                       !.temp = d(@), !.ptr1 = d(@), !.prev1 = d(@),
                                       !.curr = d(@)]]]

\* The same state with the records numbered in the order in which they are
\* found; the records in use that are not found come after them.
Renumber(st) ==
    LET Numbered(s, found) ==
            LET lost == Cardinality({p \in NodeIds : s.node[p].alloc}) - Len(found)
                r(p) == IF p \in NodeIds THEN CHOOSE k \in 1..Len(found) : found[k] = p
                        ELSE p
            IN  [node |-> [k \in NodeIds |->
                              IF k <= Len(found)
                              THEN [s.node[found[k]] EXCEPT !.next = r(@)]
                              ELSE IF k <= Len(found) + lost THEN Leaked ELSE Freed],
                 head |-> [availableSegs |-> r(s.head.availableSegs),
                           occupiedSegs |-> r(s.head.occupiedSegs)],
                 proc |-> [c \in DOMAIN s.proc |->
                              [s.proc[c] EXCEPT !.ptr = r(@), !.prev = r(@),
                                                !.newSegment = r(@), !.temp = r(@),
                                                !.ptr1 = r(@), !.prev1 = r(@),
                                                !.curr = r(@)]]]
        Found(s) == Collect(s.node, <<s.head.availableSegs, s.head.occupiedSegs>>
                                    \o Roots(s.proc, 1), <<>>)
    IN  CHOOSE out \in
            UNION {{Numbered(s, found) : found \in {Found(s)}} : s \in {st}} : TRUE

\* setupHeap, step level: record 1 is the free segment covering the heap.
InitMemory ==
    /\ simulatedHeap \in BaseAddrs
    /\ node = [p \in NodeIds |->
                  IF p = 1 THEN Record(0, HeapSize, NULL, NULL, TRUE) ELSE Freed]
    /\ head = [availableSegs |-> 1, occupiedSegs |-> NULL]
    /\ availableSegs = <<MemSegment(0, HeapSize, NULL)>>
    /\ occupiedSegs = <<>>
    /\ last = Call("setupHeap", 0, NULL, "none", "other")
    /\ pre = NoSnapshot
    /\ stale = NULL
    /\ count = 0
    /\ allocatedMem = [k \in {} |-> NULL]

\* One client, no lock: the program as it is.
InitSteps ==
    /\ InitMemory
    /\ proc = [c \in {1} |-> [Idle EXCEPT !.left = Unlimited]]
    /\ mutex = [present |-> FALSE, holder |-> 0]

\* Two clients, with calls under one lock or without a lock.
InitClients ==
    /\ InitMemory
    /\ proc = [c \in {1, 2} |-> [Idle EXCEPT !.left = MaxCalls]]
    /\ mutex \in [present : BOOLEAN, holder : {0}]

\* No client has run into undefined behaviour.
Alive == \A c \in DOMAIN proc : proc[c].pc # "undefined"

\* The pointers the next step of client c follows (NULL is tested first).
Derefs(c) ==
    LET my    == proc[c]
        at(p) == IF p = NULL THEN {} ELSE {p}
        in(p) == IF p \in NodeIds THEN at(node[p].next) ELSE {}
    IN  CASE my.pc = "scan"   -> at(my.ptr)
          [] my.pc = "new"    -> at(my.ptr)
          [] my.pc = "carve"  -> at(my.ptr)
          [] my.pc = "unlink" -> at(my.ptr) \cup
                                 (IF my.ptr \in NodeIds /\ node[my.ptr].length = 0
                                  THEN at(my.prev) ELSE {})
          [] my.pc = "append" -> at(my.newSegment)
          [] my.pc = "walk"   -> at(my.temp) \cup at(my.newSegment)
          [] my.pc = "find"   -> at(my.ptr1)
          [] my.pc = "remove" -> at(my.ptr1) \cup at(my.prev1)
          [] my.pc = "place"  -> at(my.ptr1) \cup at(my.curr)
          [] my.pc = "link"   -> at(my.ptr1) \cup at(my.prev)
          [] my.pc = "merge"  -> at(my.ptr) \cup in(my.ptr)
          [] OTHER            -> {}

\* Client c is at pc and its next step is defined.
At(c, pc) ==
    /\ Alive
    /\ proc[c].pc = pc
    /\ DANGLING \notin Derefs(c)

\* What a step of client c leaves: the records store, the heads hd, the
\* locals loc; availableSegs and occupiedSegs are the lists as a traversal
\* from the heads finds them.
Memory(c, store, hd, loc) ==
    \E st \in {Renumber(Dangle(store, hd, [proc EXCEPT ![c] = loc]))} :
    /\ node' = st.node
    /\ head' = st.head
    /\ proc' = st.proc
    /\ availableSegs' = Walk(st.node, st.head.availableSegs, MaxNodes + 1)
    /\ occupiedSegs' = Walk(st.node, st.head.occupiedSegs, MaxNodes + 1)
    /\ UNCHANGED <<simulatedHeap, stale, mainVars>>

\* The call of client c goes on.
Goes(c, store, hd, loc) ==
    /\ Memory(c, store, hd, loc)
    /\ UNCHANGED <<mutex, last, pre>>

\* The call of client c returns ret; the lock, if any, is released.
Returns(c, store, hd, op, ret, err) ==
    /\ Memory(c, store, hd,
              [Idle EXCEPT !.ret = IF op = "requestMemory" THEN ret ELSE proc[c].ret,
                           !.left = proc[c].left])
    /\ mutex' = [mutex EXCEPT !.holder = 0]
    /\ last' = Call(op, proc[c].arg, ret, err, "other")
    /\ UNCHANGED pre

\* A lock that excludes nobody.
AcquirableAlways(c) == TRUE

\* Client c may enter a call: there is no lock, or nobody holds it.
Acquirable(c) == mutex.present => mutex.holder = 0

\* The calls client c may still make, after one more.
Spent(c) == IF proc[c].left = Unlimited THEN Unlimited ELSE proc[c].left - 1

\* Client c enters a call with the locals loc, taking the lock if there is
\* one; pre keeps the lists the call found.
Enters(c, loc) ==
    /\ At(c, "idle")
    /\ proc[c].left # 0
    /\ Acquirable(c)
    /\ Memory(c, node, head, [loc EXCEPT !.left = Spent(c)])
    /\ mutex' = IF mutex.present THEN [mutex EXCEPT !.holder = c] ELSE mutex
    /\ pre' = [free |-> availableSegs, occ |-> occupiedSegs]
    /\ UNCHANGED last

\* A call of client c that returns from its first test: no list is read.
Refuses(c, op, arg, err) ==
    /\ At(c, "idle")
    /\ proc[c].left # 0
    /\ Acquirable(c)
    /\ Memory(c, node, head,
              [Idle EXCEPT !.ret = IF op = "requestMemory" THEN NULL ELSE proc[c].ret,
                           !.left = Spent(c)])
    /\ last' = Call(op, arg, NULL, err, "other")
    /\ pre' = [free |-> availableSegs, occ |-> occupiedSegs]
    /\ UNCHANGED mutex

\* A cursor that stays on its record.
SameNode(store, p) == p

\* ptr = ptr->next
NextOf(store, p) == store[p].next

\* requestMemory, lines 90-96: the size test, ptr = availableSegs, prev = NULL.
RequestEnter(c, size) ==
    IF size <= 0
    THEN Refuses(c, "requestMemory", size, "InvalidSize")
    ELSE /\ Len(occupiedSegs) < MaxLive
         /\ Enters(c, [Idle EXCEPT !.pc = "scan", !.arg = size, !.ret = proc[c].ret,
                                   !.ptr = head.availableSegs])

\* requestMemory, lines 98-104: one iteration of the first-fit scan, or its
\* exit, with return NULL when ptr == NULL.
RequestScan(c) ==
    LET my == proc[c] IN
    /\ At(c, "scan")
    /\ IF my.ptr # NULL /\ my.arg > node[my.ptr].length
       THEN Goes(c, node, head, [my EXCEPT !.prev = my.ptr, !.ptr = NextOf(node, my.ptr)])
       ELSE IF my.ptr = NULL
       THEN Returns(c, node, head, "requestMemory", NULL, "OutOfMemory")
       ELSE Goes(c, node, head, [my EXCEPT !.pc = "new"])

\* requestMemory, lines 107-117: malloc of the new record, which fails
\* (mallocOk false, p ignored) or returns the unused record p, and its fields.
RequestNew(c, mallocOk, p) ==
    LET my == proc[c] IN
    /\ At(c, "new")
    /\ IF mallocOk
       THEN /\ ~node[p].alloc
            /\ Goes(c, [node EXCEPT ![p] =
                           Record(node[my.ptr].startAddr, my.arg,
                                  simulatedHeap + node[my.ptr].startAddr, NULL, TRUE)],
                    head, [my EXCEPT !.pc = "carve", !.newSegment = p])
       ELSE /\ p = NULL
            /\ Returns(c, node, head, "requestMemory", NULL, "AllocFailed")

\* requestMemory, lines 120-121: ptr->startAddr += size; ptr->length -= size.
RequestCarve(c) ==
    LET my == proc[c] IN
    /\ At(c, "carve")
    /\ Goes(c, [node EXCEPT ![my.ptr].startAddr = @ + my.arg,
                            ![my.ptr].length = @ - my.arg],
            head, [my EXCEPT !.pc = "unlink"])

\* requestMemory, lines 124-131: an emptied ptr is unlinked and freed.
RequestUnlink(c) ==
    LET my == proc[c] IN
    /\ At(c, "unlink")
    /\ IF node[my.ptr].length = 0
       THEN IF my.prev = NULL
            THEN Goes(c, [node EXCEPT ![my.ptr] = Freed],
                      [head EXCEPT !.availableSegs = node[my.ptr].next],
                      [my EXCEPT !.pc = "append"])
            ELSE Goes(c, [node EXCEPT ![my.prev].next = node[my.ptr].next,
                                      ![my.ptr] = Freed],
                      head, [my EXCEPT !.pc = "append"])
       ELSE Goes(c, node, head, [my EXCEPT !.pc = "append"])

\* requestMemory, lines 134-137: the new record becomes the head of an empty
\* occupiedSegs and the call returns, or temp = occupiedSegs.
RequestAppend(c) ==
    LET my == proc[c] IN
    /\ At(c, "append")
    /\ IF head.occupiedSegs = NULL
       THEN Returns(c, node, [head EXCEPT !.occupiedSegs = my.newSegment],
                    "requestMemory", node[my.newSegment].memPtr, "none")
       ELSE Goes(c, node, head, [my EXCEPT !.pc = "walk", !.temp = head.occupiedSegs])

\* requestMemory, lines 138-144: one iteration of the walk to the tail, or
\* temp->next = newSegment and the return of the handle.
RequestWalk(c) ==
    LET my == proc[c] IN
    /\ At(c, "walk")
    /\ IF node[my.temp].next # NULL
       THEN Goes(c, node, head, [my EXCEPT !.temp = NextOf(node, my.temp)])
       ELSE Returns(c, [node EXCEPT ![my.temp].next = my.newSegment], head,
                    "requestMemory", node[my.newSegment].memPtr, "none")

\* releaseMemory, lines 165-170: the NULL test, ptr1 = occupiedSegs, prev1 = NULL.
ReleaseEnter(c, memPtr) ==
    IF memPtr = NULL
    THEN Refuses(c, "releaseMemory", memPtr, "NullHandle")
    ELSE Enters(c, [Idle EXCEPT !.pc = "find", !.arg = memPtr, !.ret = proc[c].ret,
                                !.ptr1 = head.occupiedSegs])

\* releaseMemory, lines 173-182: one iteration of the search for the handle,
\* or its exit, with a return when ptr1 == NULL.
ReleaseFind(c) ==
    LET my == proc[c] IN
    /\ At(c, "find")
    /\ IF my.ptr1 # NULL /\ node[my.ptr1].memPtr # my.arg
       THEN Goes(c, node, head, [my EXCEPT !.prev1 = my.ptr1, !.ptr1 = NextOf(node, my.ptr1)])
       ELSE IF my.ptr1 = NULL
       THEN Returns(c, node, head, "releaseMemory", NULL, "UnknownHandle")
       ELSE Goes(c, node, head, [my EXCEPT !.pc = "remove"])

\* releaseMemory, lines 185-192: ptr1 is unlinked from occupiedSegs;
\* prev = NULL, curr = availableSegs.
ReleaseRemove(c) ==
    LET my == proc[c] IN
    \E loc \in {[my EXCEPT !.pc = "place", !.prev = NULL, !.curr = head.availableSegs]} :
    /\ At(c, "remove")
    /\ IF my.prev1 = NULL
       THEN Goes(c, node, [head EXCEPT !.occupiedSegs = node[my.ptr1].next], loc)
       ELSE Goes(c, [node EXCEPT ![my.prev1].next = node[my.ptr1].next], head, loc)

\* releaseMemory, lines 194-197: one iteration of the sorted-insertion scan,
\* or its exit.
ReleasePlace(c) ==
    LET my == proc[c] IN
    /\ At(c, "place")
    /\ IF my.curr # NULL /\ node[my.curr].startAddr < node[my.ptr1].startAddr
       THEN Goes(c, node, head, [my EXCEPT !.prev = my.curr, !.curr = NextOf(node, my.curr)])
       ELSE Goes(c, node, head, [my EXCEPT !.pc = "link"])

\* The freed record linked in as the new head of availableSegs, wherever
\* the scan stopped.
LinkedAtHead(store, hd, my) ==
    [store |-> [store EXCEPT ![my.ptr1].next = hd.availableSegs],
     head  |-> [hd EXCEPT !.availableSegs = my.ptr1]]

\* The records and heads after ptr1->next = curr and the link from prev or
\* from availableSegs (lines 199-204).
Linked(store, hd, my) ==
    IF my.prev = NULL
    THEN [store |-> [store EXCEPT ![my.ptr1].next = my.curr],
          head  |-> [hd EXCEPT !.availableSegs = my.ptr1]]
    ELSE [store |-> [store EXCEPT ![my.ptr1].next = my.curr, ![my.prev].next = my.ptr1],
          head  |-> hd]

\* releaseMemory, lines 199-207, and combineFreeSegments, line 149: ptr1 is
\* linked into availableSegs, combineFreeSegments is called, ptr = availableSegs.
ReleaseLink(c) ==
    LET my == proc[c] IN
    /\ At(c, "link")
    /\ \E new \in {Linked(node, head, my)} :
           Goes(c, new.store, new.head,
                [my EXCEPT !.pc = "merge", !.ptr = new.head.availableSegs])

\* The records after ptr->length += ptr->next->length; temp = ptr->next;
\* ptr->next = temp->next; free(temp) (lines 153-156).
Merged(store, p) ==
    LET temp == store[p].next IN
    [store EXCEPT ![p].length = @ + store[temp].length,
                  ![p].next = store[temp].next,
                  ![temp] = Freed]

\* combineFreeSegments, lines 150-160: one iteration of the loop, which
\* merges ptr->next into ptr or moves ptr on, or the exit of the loop and
\* the return of releaseMemory.
CombineStep(c) ==
    LET my == proc[c] IN
    /\ At(c, "merge")
    /\ IF my.ptr # NULL /\ node[my.ptr].next # NULL
       THEN IF node[my.ptr].startAddr + node[my.ptr].length
                   = node[node[my.ptr].next].startAddr
            THEN Goes(c, Merged(node, my.ptr), head, my)
            ELSE Goes(c, node, head, [my EXCEPT !.ptr = NextOf(node, my.ptr)])
       ELSE Returns(c, node, head, "releaseMemory", NULL, "none")

\* The next step of client c follows a pointer to a record that was freed:
\* what it does is undefined, and the model follows the program no further.
Undefined(c) ==
    /\ Alive
    /\ DANGLING \in Derefs(c)
    /\ Goes(c, node, head, [proc[c] EXCEPT !.pc = "undefined"])

\* Sizes client c passes to requestMemory.
StepSizesOf(c) == IF proc[c].left = Unlimited THEN StepSizes ELSE ClientSizes

\* Handles client c passes to releaseMemory: the handles found in
\* occupiedSegs and the handle its last requestMemory returned; where it is
\* the only client also NULL and a pointer that was never returned.
StepHandles(c) ==
    {proc[c].ret}
    \cup {occupiedSegs[k].memPtr : k \in 1..Len(occupiedSegs)}
    \cup (IF proc[c].left = Unlimited THEN {NULL, simulatedHeap + HeapSize} ELSE {})

\* What malloc may do in RequestNew: fail, or return a record not in use
\* (the records are renumbered after the step: any of them will do).
MallocResults ==
    LET unused == {p \in NodeIds : ~node[p].alloc} IN
    {<<FALSE, NULL>>} \cup
    {<<TRUE, p>> : p \in {p \in unused : \A q \in unused : p <= q}}

\* A client enters a call.
Enter ==
    \/ \E c \in DOMAIN proc : \E size \in StepSizesOf(c) : RequestEnter(c, size)
    \/ \E c \in DOMAIN proc : \E memPtr \in StepHandles(c) : ReleaseEnter(c, memPtr)

\* A client takes the next step of its call.
Running ==
    \/ \E c \in DOMAIN proc : RequestScan(c)
    \/ \E c \in DOMAIN proc : \E m \in MallocResults : RequestNew(c, m[1], m[2])
    \/ \E c \in DOMAIN proc : RequestCarve(c)
    \/ \E c \in DOMAIN proc : RequestUnlink(c)
    \/ \E c \in DOMAIN proc : RequestAppend(c)
    \/ \E c \in DOMAIN proc : RequestWalk(c)
    \/ \E c \in DOMAIN proc : ReleaseFind(c)
    \/ \E c \in DOMAIN proc : ReleaseRemove(c)
    \/ \E c \in DOMAIN proc : ReleasePlace(c)
    \/ \E c \in DOMAIN proc : ReleaseLink(c)
    \/ \E c \in DOMAIN proc : CombineStep(c)

\* A client's next step is undefined.
Stuck == \E c \in DOMAIN proc : Undefined(c)

NextSteps == Enter \/ Running

NextClients == Enter \/ Running \/ Stuck

\* The program running its calls step by step.
SpecSteps == InitSteps /\ [][NextSteps]_vars

\* A call that was entered keeps running: the program has one thread, and
\* nothing in a call waits for anything.
SpecStepsFair == SpecSteps /\ WF_vars(Running)

\* Two clients whose steps interleave, unless the lock keeps them apart.
SpecClients == InitClients /\ [][NextClients]_vars

\* --------------------------------------------------------------- termination
\* A call that has returned did what the whole call does: the lists and the
\* value returned are those of Allocate or Free on the lists it found.
StepsRefineCalls ==
    (proc[1].pc = "idle" /\ last.op \in {"requestMemory", "releaseMemory"}) =>
        LET out == IF last.op = "requestMemory"
                   THEN Allocate(pre.free, pre.occ, simulatedHeap, last.arg,
                                 last.err # "AllocFailed")
                   ELSE Free(pre.free, pre.occ, last.arg)
        IN  /\ availableSegs = out.free
            /\ occupiedSegs = out.occ
            /\ last.ret = out.ret
            /\ last.err = out.err

\* C13: from every reachable state, a requestMemory or releaseMemory call
\* that was entered reaches its return, through the first-fit scan, the walk
\* to the tail, the search for the handle, the sorted-insertion scan and the
\* loop of combineFreeSegments, and returns what the whole call computes;
\* each iteration of the loop of combineFreeSegments removes one record from
\* the free list or moves ptr on by one record; and a request that no free
\* segment can hold returns NULL from the scan, the lists untouched, without
\* waiting for anything.
CallsReturn ==
    /\ (proc[1].pc # "idle") ~> (proc[1].pc = "idle")
    /\ []StepsRefineCalls
    /\ [][/\ (proc[1].pc = "merge" /\ proc'[1].pc = "merge") =>
                \/ /\ Len(availableSegs') = Len(availableSegs) - 1
                   /\ proc'[1].ptr = proc[1].ptr
                \/ /\ availableSegs' = availableSegs
                   /\ proc'[1].ptr = node[proc[1].ptr].next
          /\ (proc[1].pc # "idle" /\ proc'[1].pc = "idle" /\ last'.err = "OutOfMemory") =>
                /\ proc[1].pc = "scan"
                /\ availableSegs' = pre.free
                /\ occupiedSegs' = pre.occ]_vars

\* C13 witness: the loop of combineFreeSegments is running and ptr has moved
\* past the first record of a free list of three segments.
CallsReturnWitness ==
    /\ proc[1].pc = "merge"
    /\ proc[1].ptr \notin {NULL, head.availableSegs}
    /\ Len(availableSegs) >= 3

\* ------------------------------------------------------------- two clients
\* C19: when each call of two clients runs under one lock, then whenever the
\* lock is free no call is under way, no step was undefined, and the lists
\* cover [0, 1024) without overlap, with the free list in ascending order
\* and no free segment ending where another starts; a client is inside a
\* call only while it holds the lock.  (Without the lock a state with two
\* allocated segments at one start address is reachable: the witness.)
LockedCallsKeepInvariants ==
    mutex.present =>
        /\ \A c \in DOMAIN proc : proc[c].pc # "idle" => mutex.holder = c
        /\ mutex.holder = 0 =>
               /\ Alive
               /\ CoverageInvariant
               /\ NoTouchingFree
               /\ \A k \in 1..(Len(availableSegs) - 1) :
                      availableSegs[k].startAddr < availableSegs[k + 1].startAddr

\* C19 witness: without the lock both clients' requestMemory calls have
\* returned the same handle, and occupiedSegs holds two segments at the same
\* start address.
UnlockedOverlapWitness ==
    /\ ~mutex.present
    /\ \A c \in DOMAIN proc : proc[c].pc = "idle"
    /\ proc[1].ret # NULL
    /\ proc[1].ret = proc[2].ret
    /\ \E i, j \in 1..Len(occupiedSegs) :
           i # j /\ occupiedSegs[i].startAddr = occupiedSegs[j].startAddr

====
